---- MODULE Spec2Model ----
(***************************************************************************)
(* MCPClient of the MCP bridge service (src/unnamed/part_003, lines        *)
(* 409-592): a child-process JSON-RPC client.  Requests are written to the *)
(* child's stdin one per line, the child's stdout is split into lines,     *)
(* every line is parsed and matched against the table of pending requests  *)
(* by id.  Every macrotask of the Node event loop (a stdout chunk, a       *)
(* timer, a process event, a call of the API) is one action; the promise   *)
(* continuations it schedules (microtasks) run inside the same action,     *)
(* because Node drains the microtask queue before the next macrotask.      *)
(*                                                                         *)
(* Wire text is a sequence of one-character strings.  A response is the    *)
(* three characters kind-id-payload: "R" (result), an id digit, and a      *)
(* payload letter; <<"R","2","a">> stands for                              *)
(* {"jsonrpc":"2.0","id":2,"result":a}.  An error response is "E", an id   *)
(* digit, a code letter and, unless the error has no message, a message    *)
(* letter: <<"E","2","m","a">> stands for                                  *)
(* {"jsonrpc":"2.0","id":2,"error":{"code":m,"message":a}}.  <<"N","a">>   *)
(* is a notification without an id.  Every other text fails to parse.      *)
(***************************************************************************)
EXTENDS Integers, Sequences, FiniteSets, TLC

\* ---- bounds --------------------------------------------------------------
MaxRequestId == 4      \* ids 1..MaxRequestId can be allocated
MaxTicks == 2          \* the clock stops after MaxTicks time steps
MaxBuffer == 2         \* longest partial line kept between chunks
MaxReceived == 4       \* bytes received in the framing specification
MaxFairRequestId == 3  \* ids that can be allocated in the fair and the service specification

\* ---- program constants ---------------------------------------------------
ConnectionTimeoutMs == 60000
RequestTimeoutMs == 15000
KillGraceMs == 5000

TimeStep == RequestTimeoutMs
Horizon == MaxTicks * TimeStep
NoTimer == -1

NL == "\n"
SP == " "
Ids == 1..MaxRequestId
Payloads == {"a", "b"}
Codes == {"m", "n"}
DigitOf(i) == <<"1", "2", "3", "4", "5", "6", "7", "8", "9">>[i]
Digits == {DigitOf(i) : i \in 1..9}
IdOfDigit(d) == CHOOSE i \in 1..9 : DigitOf(i) = d

\* ---- text helpers (Buffer.toString, String.prototype.split / trim, -----
\* ---- JSON.parse) ---------------------------------------------------------
\* bytes: an ASCII character is its own byte; LeadByte ContByte is the
\* UTF-8 encoding of the one character TwoByteChar
LeadByte == "C3"
ContByte == "A9"
TwoByteChar == "U+00E9"
ReplacementChar == "U+FFFD"

RECURSIVE BufferToString(_)
\* data.toString(), line 441: UTF-8 decoding of one chunk on its own; a byte
\* sequence cut off by the end of the chunk, and a continuation byte that
\* follows no lead byte, decode to U+FFFD
BufferToString(data) ==
    IF data = <<>> THEN <<>>
    ELSE IF Head(data) = LeadByte
    THEN IF Len(data) >= 2 /\ data[2] = ContByte
         THEN <<TwoByteChar>> \o BufferToString(SubSeq(data, 3, Len(data)))
         ELSE <<ReplacementChar>> \o BufferToString(Tail(data))
    ELSE IF Head(data) = ContByte
    THEN <<ReplacementChar>> \o BufferToString(Tail(data))
    ELSE <<Head(data)>> \o BufferToString(Tail(data))

RECURSIVE SplitNL(_, _, _)
\* s.split('\n'): acc are the finished pieces, cur the piece being read
SplitNL(s, acc, cur) ==
    IF s = <<>> THEN Append(acc, cur)
    ELSE IF Head(s) = NL THEN SplitNL(Tail(s), Append(acc, cur), <<>>)
    ELSE SplitNL(Tail(s), acc, Append(cur, Head(s)))

Split(s) == SplitNL(s, <<>>, <<>>)

RECURSIVE TrimLeft(_)
TrimLeft(s) == IF s # <<>> /\ Head(s) \in {SP, NL} THEN TrimLeft(Tail(s)) ELSE s

RECURSIVE TrimRight(_)
TrimRight(s) ==
    IF s # <<>> /\ s[Len(s)] \in {SP, NL} THEN TrimRight(SubSeq(s, 1, Len(s) - 1)) ELSE s

Trim(s) == TrimRight(TrimLeft(s))

NoMessage == [ok |-> FALSE, id |-> 0, error |-> FALSE, code |-> "", payload |-> ""]

\* JSON.parse(line): surrounding white space is allowed, anything that is
\* not one message text throws (ok = FALSE)
JSONParse(line) ==
    LET t == Trim(line) IN
    IF Len(t) = 3 /\ t[1] = "R" /\ t[2] \in Digits /\ t[3] \in Payloads
    THEN [ok |-> TRUE, id |-> IdOfDigit(t[2]), error |-> FALSE, code |-> "",
          payload |-> t[3]]
    ELSE IF Len(t) = 4 /\ t[1] = "E" /\ t[2] \in Digits /\ t[3] \in Codes
            /\ t[4] \in Payloads
    THEN [ok |-> TRUE, id |-> IdOfDigit(t[2]), error |-> TRUE, code |-> t[3],
          payload |-> t[4]]
    ELSE IF Len(t) = 3 /\ t[1] = "E" /\ t[2] \in Digits /\ t[3] \in Codes
    THEN [ok |-> TRUE, id |-> IdOfDigit(t[2]), error |-> TRUE, code |-> t[3],
          payload |-> ""]
    ELSE IF Len(t) = 2 /\ t[1] = "N" /\ t[2] \in Payloads
    THEN [ok |-> TRUE, id |-> 0, error |-> FALSE, code |-> "", payload |-> t[2]]
    ELSE NoMessage

ResultLine(i, p) == <<"R", DigitOf(i), p, NL>>
ErrorLine(i, c, p) == <<"E", DigitOf(i), c, p, NL>>

VARIABLES
    process,          \* this.process: "null" or "child"
    connected,        \* this.connected
    requestId,        \* this.requestId
    pendingRequests,  \* keys of this.pendingRequests
    tools,            \* this.tools: "none" for [], else the payload received
    buffer,           \* the partial line kept by the stdout handler
    connectionTimeout,\* due time of the connection timer, NoTimer if not armed
    requestTimers,    \* id -> due time of the request's timer, NoTimer if none
    killTimer,        \* due time of cleanup()'s SIGKILL timer
    connectCalls,     \* calls of connect()'s resolve/reject, in order
    settled,          \* id -> calls of the request's resolve/reject, in order
    method,           \* id -> method of the request sent with that id
    written,          \* ids of the requests written to the child's stdin
    child,            \* "none", "running", "spawnfail", "exited"
    killed,           \* process.killed of the spawned ChildProcess
    signals,          \* signals delivered to the child process
    now,              \* milliseconds since connect()
    lastSettled,      \* history: ids whose resolve/reject the last event called
    lastCall,         \* history: outcome of callTool if it was the last event
    closedEarly,      \* history: the child exited before connect() settled
    lateResponse,     \* history: the last event was a chunk with a response to
                      \* a request that its timeout had already rejected
    lastDisconnect,   \* history: "signalled" / "no-op" if the last event was
                      \* disconnect() with / without a process handle
    stray,            \* history: the last event was a chunk of messages none
                      \* of which had the id of a pending request
    lastUsage,        \* history: what callMCPFunction did if it was the last
                      \* event: "not found", "not connected", "called"
    received,         \* history of the framing specification: the bytes the
                      \* child has written to its stdout
    parsed,           \* history of the framing specification: the lines given
                      \* to JSON.parse, in order
    text,             \* history of the framing specification: the text the
                      \* handler has got from data.toString(), chunk by chunk
    attempt,          \* connectWithRetry's loop variable: the attempt the
                      \* client belongs to
    orphan,           \* history of the retry specification: the child of an
                      \* earlier attempt was running, with no signal sent to
                      \* it, when the next attempt began
    req,              \* the HTTP request the /mcp/... handler was last called
                      \* with: endpoint, body, headers; NoRequest before
    res,              \* the responses sent for req, in order
    upstream          \* the call of the Strava / Google API made for req:
                      \* "none", "pending", "returned", "failed"

vars == <<process, connected, requestId, pendingRequests, tools, buffer,
          connectionTimeout, requestTimers, killTimer, connectCalls, settled,
          method, written, child, killed, signals, now, lastSettled, lastCall,
          closedEarly, lateResponse, lastDisconnect, stray, lastUsage, received,
          parsed, text, attempt, orphan, req, res, upstream>>

\* the history kept by the framing specification only
framerVars == <<received, parsed, text>>

\* the variables of connectWithRetry
retryVars == <<attempt, orphan>>

\* the variables of the HTTP endpoints
httpVars == <<req, res, upstream>>

\* an id that is undefined, and req.body when the request has no JSON body
NoId == 0
NoBody == [jsonrpc |-> "undefined", id |-> NoId, method |-> "undefined",
           params |-> "undefined"]
NoRequest == [endpoint |-> "none", body |-> NoBody, headers |-> {}]

\* constructor (and the state before connect() is called)
Init ==
    /\ process = "null"
    /\ connected = FALSE
    /\ requestId = 1
    /\ pendingRequests = {}
    /\ tools = "none"
    /\ buffer = <<>>
    /\ connectionTimeout = NoTimer
    /\ requestTimers = [i \in Ids |-> NoTimer]
    /\ killTimer = NoTimer
    /\ connectCalls = <<>>
    /\ settled = [i \in Ids |-> <<>>]
    /\ method = [i \in Ids |-> "none"]
    /\ written = {}
    /\ child = "none"
    /\ killed = FALSE
    /\ signals = {}
    /\ now = 0
    /\ lastSettled = {}
    /\ lastCall = "none"
    /\ closedEarly = FALSE
    /\ lateResponse = FALSE
    /\ lastDisconnect = "none"
    /\ stray = FALSE
    /\ lastUsage = "none"
    /\ received = <<>>
    /\ parsed = <<>>
    /\ text = <<>>
    /\ attempt = 1
    /\ orphan = FALSE
    /\ req = NoRequest
    /\ res = <<>>
    /\ upstream = "none"

\* ---- the client's fields as one record, threaded through a macrotask ----
Client ==
    [process |-> process, connected |-> connected, requestId |-> requestId,
     pendingRequests |-> pendingRequests, tools |-> tools,
     connectionTimeout |-> connectionTimeout, requestTimers |-> requestTimers,
     connectCalls |-> connectCalls, settled |-> settled, method |-> method,
     written |-> written, refused |-> FALSE]

Resolve(v) == [how |-> "resolve", val |-> v]
Reject(v) == [how |-> "reject", val |-> v]

\* the resolve / reject closure of request id is called
Settle(c, id, call) ==
    [c EXCEPT !.settled[id] = Append(@, call)]

\* handleMessage without the pendingRequests.has test of the right id: the
\* oldest pending request is settled with whatever response arrives
HandleMessage_OldestPending(c, message) ==
    IF message.id # 0 /\ c.pendingRequests # {}
    THEN LET old == CHOOSE i \in c.pendingRequests : \A j \in c.pendingRequests : i <= j
             d == [c EXCEPT !.pendingRequests = @ \ {old}] IN
         IF message.error
         THEN Settle(d, old, Reject(message.payload))
         ELSE Settle(d, old, Resolve(message.payload))
    ELSE c

\* a handleMessage that takes a message without a pending id for a
\* notification of the tool set
HandleMessage_StrayUpdatesTools(c, message) ==
    IF message.id # 0 /\ message.id \in c.pendingRequests
    THEN LET d == [c EXCEPT !.pendingRequests = @ \ {message.id}] IN
         IF message.error
         THEN Settle(d, message.id, Reject(message.payload))
         ELSE Settle(d, message.id, Resolve(message.payload))
    ELSE [c EXCEPT !.tools = message.payload]

\* new Error(message.error.message || 'MCP error'), line 528: the Error
\* object is made from the message alone
ErrorOf(message) == IF message.payload = "" THEN "MCP error" ELSE message.payload

\* handleMessage(message), lines 522-533
HandleMessage(c, message) ==
    IF message.id # 0 /\ message.id \in c.pendingRequests
    THEN LET d == [c EXCEPT !.pendingRequests = @ \ {message.id}] IN
         IF message.error
         THEN Settle(d, message.id, Reject(ErrorOf(message)))
         ELSE Settle(d, message.id, Resolve(message.payload))
    ELSE c

\* sendRequest that uses this.requestId without incrementing it
SendRequest_NoIncrement(c, m, throws, t) ==
    IF c.process = "null"
    THEN [c EXCEPT !.refused = TRUE]
    ELSE LET id == c.requestId
             d == [c EXCEPT !.pendingRequests = @ \cup {id},
                            !.requestTimers[id] = t + RequestTimeoutMs,
                            !.method[id] = m,
                            !.refused = FALSE]
         IN IF throws
            THEN Settle([d EXCEPT !.pendingRequests = @ \ {id}], id, Reject("write failed"))
            ELSE [d EXCEPT !.written = @ \cup {id}]

\* a sendRequest whose catch block rejects but leaves the entry in the table
SendRequest_KeepsEntryOnThrow(c, m, throws, t) ==
    IF c.process = "null"
    THEN [c EXCEPT !.refused = TRUE]
    ELSE LET id == c.requestId
             d == [c EXCEPT !.requestId = id + 1,
                            !.pendingRequests = @ \cup {id},
                            !.requestTimers[id] = t + RequestTimeoutMs,
                            !.method[id] = m,
                            !.refused = FALSE]
         IN IF throws
            THEN Settle(d, id, Reject("write failed"))
            ELSE [d EXCEPT !.written = @ \cup {id}]

\* sendRequest(method, params), lines 535-568, called at time t; throws says
\* that JSON.stringify / stdin.write throws.  refused: the promise was
\* rejected at line 538 without a request having been made.
SendRequest(c, m, throws, t) ==
    IF c.process = "null"
    THEN [c EXCEPT !.refused = TRUE]
    ELSE LET id == c.requestId
             d == [c EXCEPT !.requestId = id + 1,
                            !.pendingRequests = @ \cup {id},
                            !.requestTimers[id] = t + RequestTimeoutMs,
                            !.method[id] = m,
                            !.refused = FALSE]
         IN IF throws
            THEN Settle([d EXCEPT !.pendingRequests = @ \ {id}], id, Reject("write failed"))
            ELSE [d EXCEPT !.written = @ \cup {id}]

\* the timer callback without the pendingRequests.has test
RequestTimeoutFired_NoCheck(c, id) ==
    LET d == [c EXCEPT !.requestTimers[id] = NoTimer] IN
    Settle([d EXCEPT !.pendingRequests = @ \ {id}], id, Reject("Request timeout"))

\* a timer callback that leaves the entry in the table
RequestTimeoutFired_NoDelete(c, id) ==
    [c EXCEPT !.requestTimers[id] = NoTimer]

\* a timer callback that also gives the connection up
RequestTimeoutFired_Disconnects(c, id) ==
    LET d == [c EXCEPT !.requestTimers[id] = NoTimer] IN
    IF id \in d.pendingRequests
    THEN Settle([d EXCEPT !.pendingRequests = @ \ {id}, !.connected = FALSE],
                id, Reject("Request timeout"))
    ELSE d

\* the timer callback of sendRequest, lines 553-558
RequestTimeoutFired(c, id) ==
    LET d == [c EXCEPT !.requestTimers[id] = NoTimer] IN
    IF id \in d.pendingRequests
    THEN Settle([d EXCEPT !.pendingRequests = @ \ {id}], id, Reject("Request timeout"))
    ELSE d

\* the request sent with method m, 0 if there is none
IdOf(c, m) ==
    IF \E i \in Ids : c.method[i] = m THEN CHOOSE i \in Ids : c.method[i] = m ELSE 0

\* the rest of the async function after `await sendRequest('tools/list')`,
\* lines 492-499; outcome is the settlement of that promise
ToolsContinuation(c, outcome) ==
    LET d == IF outcome.how = "resolve" THEN [c EXCEPT !.tools = outcome.val] ELSE c IN
    [d EXCEPT !.connected = TRUE, !.connectCalls = Append(@, Resolve("ready"))]

\* a handshake that goes on to tools/list whatever initialize returned
InitContinuation_IgnoresError(c, outcome, throws, t) ==
    LET d == [c EXCEPT !.connectionTimeout = NoTimer]
        e == SendRequest(d, "tools/list", throws, t) IN
    IF e.refused
    THEN ToolsContinuation([e EXCEPT !.refused = FALSE], Reject("MCP server not connected"))
    ELSE e

\* .then / .catch of the initialize promise, lines 485-503
InitContinuation(c, outcome, throws, t) ==
    LET d == [c EXCEPT !.connectionTimeout = NoTimer] IN
    IF outcome.how = "resolve"
    THEN LET e == SendRequest(d, "tools/list", throws, t) IN
         IF e.refused
         THEN ToolsContinuation([e EXCEPT !.refused = FALSE],
                                Reject("MCP server not connected"))
         ELSE e
    ELSE [d EXCEPT !.connectCalls = Append(@, Reject(outcome.val))]

\* promises settled by the macrotask that led from c0 to c
NewlySettled(c0, c, m) ==
    LET i == IdOf(c, m) IN
    i # 0 /\ c0.settled[i] = <<>> /\ c.settled[i] # <<>>

\* the microtasks that follow a macrotask: the handshake continuations of
\* the promises the macrotask settled
Drain(c0, c, throws, t) ==
    LET c1 == IF NewlySettled(c0, c, "initialize")
              THEN InitContinuation(c, c.settled[IdOf(c, "initialize")][1], throws, t)
              ELSE c
    IN IF NewlySettled(c0, c1, "tools/list")
       THEN ToolsContinuation(c1, c1.settled[IdOf(c1, "tools/list")][1])
       ELSE c1

\* write the record back to the variables
StoreFields(c) ==
    /\ process' = c.process
    /\ connected' = c.connected
    /\ requestId' = c.requestId
    /\ pendingRequests' = c.pendingRequests
    /\ tools' = c.tools
    /\ connectionTimeout' = c.connectionTimeout
    /\ requestTimers' = c.requestTimers
    /\ connectCalls' = c.connectCalls
    /\ settled' = c.settled
    /\ method' = c.method
    /\ written' = c.written
    /\ lastSettled' = {i \in Ids : c.settled[i] # settled[i]}

\* the record is computed once
Store(r) == \E c \in {r} : StoreFields(c)

\* ---- the child process ---------------------------------------------------
\* ChildProcess.kill(sig): the signal is sent, and process.killed set, only
\* while the child is alive
KillChild(sig) ==
    IF child = "running"
    THEN /\ signals' = signals \cup {sig}
         /\ killed' = TRUE
    ELSE UNCHANGED <<signals, killed>>

\* ---- connect(), lines 419-509 -------------------------------------------
\* spawn: "ok" the child runs, "fail" the child could not be started (an
\* 'error' event follows), "throw" spawn() or args.join() throws; throws:
\* the write of the initialize request throws
Connect(spawn, throws) ==
    /\ child = "none" /\ connectCalls = <<>>
    /\ throws => spawn = "fail"
    /\ IF spawn = "throw"
       THEN /\ connectCalls' = <<Reject("spawn threw")>>
            /\ UNCHANGED <<process, connected, requestId, pendingRequests, tools,
                           buffer, connectionTimeout, requestTimers, settled,
                           method, written, child>>
            /\ lastSettled' = {}
       ELSE LET c0 == [Client EXCEPT !.process = "child",
                                     !.connectionTimeout = now + ConnectionTimeoutMs]
                c1 == SendRequest(c0, "initialize", throws, now)
            IN /\ Store(Drain(c0, c1, FALSE, now))
               /\ buffer' = <<>>
               /\ child' = IF spawn = "ok" THEN "running" ELSE "spawnfail"
    /\ lastCall' = "none"
    /\ lateResponse' = FALSE
    /\ lastDisconnect' = "none"
    /\ stray' = FALSE
    /\ UNCHANGED <<framerVars, retryVars, httpVars>>
    /\ lastUsage' = "none"
    /\ UNCHANGED <<killTimer, killed, signals, now, closedEarly>>

\* ---- process.stdout.on('data'), lines 440-457 ----------------------------
\* lines 448-454 for one line: the message, or NoMessage if the line is
\* skipped or JSON.parse throws
TryParse(line) == IF Trim(line) # <<>> THEN JSONParse(line) ELSE NoMessage

\* the same for every complete line of the chunk
ParseLines(lines) == [k \in 1..Len(lines) |-> TryParse(lines[k])]

RECURSIVE HandleLines_StopsAtBadLine(_, _)
\* a loop that JSON.parse's exception ends: the try around the whole loop
HandleLines_StopsAtBadLine(c, messages) ==
    IF messages = <<>> THEN c
    ELSE LET message == Head(messages) IN
         IF message.ok
         THEN HandleLines_StopsAtBadLine(HandleMessage(c, message), Tail(messages))
         ELSE c

RECURSIVE HandleLines(_, _)
\* the for loop over the complete lines, lines 447-456; messages are the
\* lines as parsed by ParseLines
HandleLines(c, messages) ==
    IF messages = <<>> THEN c
    ELSE LET message == Head(messages)
             d == IF message.ok THEN HandleMessage(c, message) ELSE c
         IN HandleLines(d, Tail(messages))

\* a handler that keeps the last complete line together with the partial one
KeptBuffer_KeepsLastLine(pieces) ==
    IF Len(pieces) > 1
    THEN pieces[Len(pieces) - 1] \o <<NL>> \o pieces[Len(pieces)]
    ELSE pieces[1]

\* lines.pop() || ''
KeptBuffer(pieces) == pieces[Len(pieces)]
CompleteLines(pieces) == SubSeq(pieces, 1, Len(pieces) - 1)

\* some line is a response to a request already rejected by its timeout
IsLate(messages) ==
    \E k \in 1..Len(messages) :
        LET message == messages[k] IN
        /\ message.ok /\ message.id \in Ids
        /\ settled[message.id] = <<Reject("Request timeout")>>

\* every line is a message, and none has the id of a pending request
AllStray(messages) ==
    /\ messages # <<>>
    /\ \A k \in 1..Len(messages) :
           LET message == messages[k] IN
           /\ message.ok
           /\ message.id = 0 \/ message.id \notin pendingRequests

\* the lines for which JSON.parse is called, lines 447-450
ParserInput(lines) == SelectSeq(lines, LAMBDA line : Trim(line) # <<>>)

\* the handler of a chunk of bytes; history says whether the framing
\* history is kept
StdoutData(data, history) ==
    /\ child = "running"
    /\ \E pieces \in {Split(buffer \o BufferToString(data))} :
          /\ Len(KeptBuffer(pieces)) <= MaxBuffer
          /\ buffer' = KeptBuffer(pieces)
          /\ \E messages \in {ParseLines(CompleteLines(pieces))} :
                /\ Store(Drain(Client, HandleLines(Client, messages), FALSE, now))
                /\ lateResponse' = IsLate(messages)
                /\ stray' = AllStray(messages)
          /\ parsed' = IF history THEN parsed \o ParserInput(CompleteLines(pieces))
                        ELSE parsed
    /\ received' = IF history THEN received \o data ELSE received
    /\ text' = IF history THEN text \o BufferToString(data) ELSE text
    /\ UNCHANGED <<retryVars, httpVars>>
    /\ lastCall' = "none"
    /\ lastDisconnect' = "none"
    /\ lastUsage' = "none"
    /\ UNCHANGED <<killTimer, child, killed, signals, now, closedEarly>>

Data(chunk) == StdoutData(chunk, FALSE)

\* the handler in the framing specification: any bytes, at most MaxReceived
FramerData(bytes) ==
    /\ Len(received) + Len(bytes) <= MaxReceived
    /\ StdoutData(bytes, TRUE)

\* a close handler that does not clear connected
ProcClose_KeepsConnected ==
    /\ child \in {"running", "spawnerr"}
    /\ child' = "exited"
    /\ connectionTimeout' = NoTimer
    /\ closedEarly' = (closedEarly \/ connectCalls = <<>>)
    /\ lateResponse' = FALSE
    /\ lastDisconnect' = "none"
    /\ stray' = FALSE
    /\ UNCHANGED <<framerVars, retryVars, httpVars>>
    /\ lastUsage' = "none"
    /\ lastSettled' = {}
    /\ lastCall' = "none"
    /\ UNCHANGED <<process, connected, requestId, pendingRequests, tools, buffer,
                   requestTimers, killTimer, connectCalls, settled, method, written,
                   killed, signals, now>>

\* a close handler that rejects every pending request at once
ProcClose_FlushesPending ==
    /\ child \in {"running", "spawnerr"}
    /\ child' = "exited"
    /\ connected' = FALSE
    /\ connectionTimeout' = NoTimer
    /\ closedEarly' = (closedEarly \/ connectCalls = <<>>)
    /\ lateResponse' = FALSE
    /\ lastDisconnect' = "none"
    /\ stray' = FALSE
    /\ UNCHANGED <<framerVars, retryVars, httpVars>>
    /\ lastUsage' = "none"
    /\ pendingRequests' = {}
    /\ settled' = [i \in Ids |-> IF i \in pendingRequests
                                  THEN Append(settled[i], Reject("closed"))
                                  ELSE settled[i]]
    /\ lastSettled' = pendingRequests
    /\ lastCall' = "none"
    /\ UNCHANGED <<process, requestId, tools, buffer, requestTimers,
                   killTimer, connectCalls, method, written, killed,
                   signals, now>>

\* a close handler without clearTimeout(connectionTimeout)
ProcClose_KeepsTimer ==
    /\ child \in {"running", "spawnerr"}
    /\ child' = "exited"
    /\ connected' = FALSE
    /\ closedEarly' = (closedEarly \/ connectCalls = <<>>)
    /\ lateResponse' = FALSE
    /\ lastDisconnect' = "none"
    /\ stray' = FALSE
    /\ UNCHANGED <<framerVars, retryVars, httpVars>>
    /\ lastUsage' = "none"
    /\ lastSettled' = {}
    /\ lastCall' = "none"
    /\ UNCHANGED <<process, requestId, pendingRequests, tools, buffer, requestTimers,
                   killTimer, connectCalls, settled, method, written, killed,
                   signals, now, connectionTimeout>>

\* ---- process.on('close'), lines 463-467: the child has exited ----------
ProcClose ==
    /\ child \in {"running", "spawnerr"}
    /\ child' = "exited"
    /\ connected' = FALSE
    /\ connectionTimeout' = NoTimer
    /\ closedEarly' = (closedEarly \/ connectCalls = <<>>)
    /\ lateResponse' = FALSE
    /\ lastDisconnect' = "none"
    /\ stray' = FALSE
    /\ UNCHANGED <<framerVars, retryVars, httpVars>>
    /\ lastUsage' = "none"
    /\ lastSettled' = {}
    /\ lastCall' = "none"
    /\ UNCHANGED <<process, requestId, pendingRequests, tools, buffer, requestTimers,
                   killTimer, connectCalls, settled, method, written, killed,
                   signals, now>>

\* ---- process.on('error'), lines 469-473: the child could not be spawned --
ProcError ==
    /\ child = "spawnfail"
    /\ child' = "spawnerr"
    /\ connectionTimeout' = NoTimer
    /\ connectCalls' = Append(connectCalls, Reject("spawn error"))
    /\ lastSettled' = {}
    /\ lastCall' = "none"
    /\ UNCHANGED <<process, connected, requestId, pendingRequests, tools, buffer,
                   requestTimers, killTimer, settled, method, written, killed,
                   signals, now, closedEarly>>
    /\ lateResponse' = FALSE
    /\ lastDisconnect' = "none"
    /\ stray' = FALSE
    /\ UNCHANGED <<framerVars, retryVars, httpVars>>
    /\ lastUsage' = "none"

\* the 'error' event of a failed spawn is emitted on the next tick, before
\* any other macrotask
NoTickPending == child # "spawnfail"

\* ---- timers --------------------------------------------------------------
ConnectionTimer == 0
KillTimer == 0 - 1
Timers == Ids \cup {ConnectionTimer, KillTimer}

DueTime(k) ==
    IF k = ConnectionTimer THEN connectionTimeout
    ELSE IF k = KillTimer THEN killTimer
    ELSE requestTimers[k]

Armed(k) == DueTime(k) # NoTimer

\* the timer the event loop runs next: armed, expired, and none expires
\* earlier; request timers (one duration) run in the order they were set
Due(k) ==
    /\ Armed(k)
    /\ DueTime(k) <= now
    /\ \A j \in Timers : Armed(j) => DueTime(k) <= DueTime(j)
    /\ k \in Ids => \A j \in Ids : (Armed(j) /\ DueTime(j) = DueTime(k)) => k <= j

\* the connection timer's callback, lines 434-438, with cleanup(), 511-520
ConnectionTimeoutFired ==
    /\ connectionTimeout' = NoTimer
    /\ IF process # "null"
       THEN /\ KillChild("SIGTERM")
            /\ killTimer' = now + KillGraceMs
       ELSE UNCHANGED <<signals, killed, killTimer>>
    /\ connectCalls' = Append(connectCalls, Reject("Connection timeout"))
    /\ lastSettled' = {}
    /\ UNCHANGED <<process, connected, requestId, pendingRequests, tools,
                   requestTimers, settled, method, written>>

\* the timer callback inside cleanup(), lines 514-518
KillTimeoutFired ==
    /\ killTimer' = NoTimer
    /\ IF process # "null" /\ ~killed
       THEN KillChild("SIGKILL")
       ELSE UNCHANGED <<signals, killed>>
    /\ lastSettled' = {}
    /\ UNCHANGED <<process, connected, requestId, pendingRequests, tools,
                   connectionTimeout, requestTimers, connectCalls, settled, method,
                   written>>

\* the timer callback of request k, and the microtasks it schedules
RequestTimerRun(k) ==
    /\ Store(Drain(Client, RequestTimeoutFired(Client, k), FALSE, now))
    /\ UNCHANGED <<killTimer, signals, killed>>

\* the timers phase of the event loop runs one expired timer
RunTimer(k) ==
    /\ NoTickPending
    /\ Due(k)
    /\ CASE k = ConnectionTimer -> ConnectionTimeoutFired
         [] k = KillTimer -> KillTimeoutFired
         [] OTHER -> RequestTimerRun(k)
    /\ lastCall' = "none"
    /\ lateResponse' = FALSE
    /\ lastDisconnect' = "none"
    /\ stray' = FALSE
    /\ UNCHANGED <<framerVars, retryVars, httpVars>>
    /\ lastUsage' = "none"
    /\ UNCHANGED <<buffer, child, now, closedEarly>>

Min(S) == CHOOSE x \in S : \A y \in S : x <= y

\* time passes, once every expired timer has run; the clock is only needed
\* while some timer is armed
AdvanceTime ==
    /\ NoTickPending
    /\ \E k \in Timers : Armed(k)
    /\ \A k \in Timers : Armed(k) => DueTime(k) > now
    /\ now' = Min({now + TimeStep} \cup {DueTime(k) : k \in {j \in Timers : Armed(j)}})
    /\ lastSettled' = {}
    /\ lastCall' = "none"
    /\ UNCHANGED <<process, connected, requestId, pendingRequests, tools, buffer,
                   connectionTimeout, requestTimers, killTimer, connectCalls, settled,
                   method, written, child, killed, signals, closedEarly>>
    /\ lateResponse' = FALSE
    /\ lastDisconnect' = "none"
    /\ stray' = FALSE
    /\ UNCHANGED <<framerVars, retryVars, httpVars>>
    /\ lastUsage' = "none"

\* callTool without the test of this.connected
CallTool_NoGuard(throws) ==
    /\ NoTickPending
    /\ process = "null" \/ requestId <= MaxRequestId
    /\ now + RequestTimeoutMs <= Horizon
    /\ LET c == SendRequest(Client, "tools/call", throws, now)
       IN /\ Store(c)
          /\ lastCall' = IF c.refused THEN "refused" ELSE "sent"
    /\ lateResponse' = FALSE
    /\ lastDisconnect' = "none"
    /\ stray' = FALSE
    /\ UNCHANGED <<framerVars, retryVars, httpVars>>
    /\ lastUsage' = "none"
    /\ UNCHANGED <<buffer, killTimer, child, killed, signals, now, closedEarly>>

\* ---- callTool(name, arguments), lines 570-579 ----------------------------
\* throws: the arguments cannot be serialised, or the write throws
CallToolBody(throws) ==
    /\ NoTickPending
    /\ IF ~connected
       THEN /\ lastCall' = "not connected"
            /\ lastSettled' = {}
            /\ UNCHANGED <<process, connected, requestId, pendingRequests, tools,
                           connectionTimeout, requestTimers, connectCalls, settled,
                           method, written>>
       ELSE /\ process = "null" \/ requestId <= MaxRequestId
            /\ now + RequestTimeoutMs <= Horizon
            /\ LET c == SendRequest(Client, "tools/call", throws, now)
               IN /\ Store(c)
                  /\ lastCall' = IF c.refused THEN "refused" ELSE "sent"
    /\ UNCHANGED <<buffer, killTimer, child, killed, signals, now, closedEarly>>
    /\ lateResponse' = FALSE
    /\ lastDisconnect' = "none"
    /\ stray' = FALSE

\* callTool called on the client directly
CallTool(throws) ==
    /\ CallToolBody(throws)
    /\ UNCHANGED <<framerVars, retryVars, httpVars>>
    /\ lastUsage' = "none"

\* ---- MCPBridgeService.callMCPFunction(serverName, ...), lines 1462-1479 ----
\* the name under which connectWithRetry registers this client, line 1276,
\* and a name no server is registered under
ServerName == "srv"
ServerNames == {ServerName, "other"}

\* keys of this.mcpClients: the client is registered once its connect() has
\* resolved (connect() settles within two request timeouts, before the 60 s
\* race of connectWithRetry)
McpClients == IF connectCalls # <<>> /\ connectCalls[1].how = "resolve"
              THEN {ServerName} ELSE {}

\* a callMCPFunction that hands every call for a registered server to the
\* client's sendRequest
CallMCPFunction_NoConnectedTest(serverName, throws) ==
    /\ NoTickPending
    /\ serverName \in McpClients
    /\ process = "null" \/ requestId <= MaxRequestId
    /\ now + RequestTimeoutMs <= Horizon
    /\ LET c == SendRequest(Client, "tools/call", throws, now)
       IN /\ Store(c)
          /\ lastCall' = IF c.refused THEN "refused" ELSE "sent"
    /\ UNCHANGED <<framerVars, retryVars, httpVars>>
    /\ lastUsage' = IF connected THEN "called" ELSE "not connected"
    /\ UNCHANGED <<buffer, killTimer, child, killed, signals, now, closedEarly>>
    /\ lateResponse' = FALSE
    /\ lastDisconnect' = "none"
    /\ stray' = FALSE

CallMCPFunction(serverName, throws) ==
    IF serverName \notin McpClients \/ ~connected
    THEN /\ NoTickPending
         /\ UNCHANGED <<framerVars, retryVars, httpVars>>
         /\ lastUsage' = IF serverName \notin McpClients
                          THEN "not found" ELSE "not connected"
         /\ lastSettled' = {}
         /\ lastCall' = "none"
         /\ lateResponse' = FALSE
         /\ lastDisconnect' = "none"
         /\ stray' = FALSE
         /\ UNCHANGED <<process, connected, requestId, pendingRequests, tools,
                        buffer, connectionTimeout, requestTimers, killTimer,
                        connectCalls, settled, method, written, child, killed,
                        signals, now, closedEarly>>
    ELSE /\ CallToolBody(throws)
         /\ UNCHANGED <<framerVars, retryVars, httpVars>>
         /\ lastUsage' = "called"

\* a disconnect() that sends SIGKILL when it is called again
Disconnect_KillsAgain ==
    /\ NoTickPending
    /\ KillChild(IF process # "null" THEN "SIGTERM" ELSE "SIGKILL")
    /\ process' = "null"
    /\ connected' = FALSE
    /\ lastSettled' = {}
    /\ lastCall' = "none"
    /\ UNCHANGED <<requestId, pendingRequests, tools, buffer, connectionTimeout,
                   requestTimers, killTimer, connectCalls, settled, method, written,
                   child, now, closedEarly>>
    /\ lateResponse' = FALSE
    /\ lastDisconnect' = IF process # "null" THEN "signalled" ELSE "no-op"
    /\ stray' = FALSE
    /\ UNCHANGED <<framerVars, retryVars, httpVars>>
    /\ lastUsage' = "none"

\* ---- disconnect(), lines 585-591 -----------------------------------------
Disconnect ==
    /\ NoTickPending
    /\ IF process # "null"
       THEN /\ KillChild("SIGTERM")
            /\ process' = "null"
            /\ connected' = FALSE
       ELSE UNCHANGED <<signals, killed, process, connected>>
    /\ lastSettled' = {}
    /\ lastCall' = "none"
    /\ UNCHANGED <<requestId, pendingRequests, tools, buffer, connectionTimeout,
                   requestTimers, killTimer, connectCalls, settled, method, written,
                   child, now, closedEarly>>
    /\ lateResponse' = FALSE
    /\ lastDisconnect' = IF process # "null" THEN "signalled" ELSE "no-op"
    /\ stray' = FALSE
    /\ UNCHANGED <<framerVars, retryVars, httpVars>>
    /\ lastUsage' = "none"

\* ---- inputs ----------------------------------------------------------------
SpawnOutcomes == {"ok", "fail", "throw"}

\* what the child writes: one response, two responses in one chunk, a
\* response cut in two, a notification, an empty line, text that is no message
\* the child answers request i with the result PayloadFor(i)
PayloadFor(i) == IF i % 2 = 1 THEN "a" ELSE "b"
\* an error response to request i has the code CodeFor(i)
CodeFor(i) == IF i % 2 = 1 THEN "m" ELSE "n"

ChunkInputs ==
    {ResultLine(i, PayloadFor(i)) : i \in Ids}
    \cup {ErrorLine(i, CodeFor(i), "a") : i \in Ids}
    \cup {ResultLine(ij[1], PayloadFor(ij[1])) \o ResultLine(ij[2], PayloadFor(ij[2])) :
             ij \in {x \in Ids \X Ids : x[1] - x[2] \in {1, 0 - 1}}}
    \cup {<<"R", DigitOf(1)>>, <<"a", NL>>}
    \cup {<<"N", "a", NL>>, <<NL>>, <<"x", NL>>}

Next ==
    \/ \E spawn \in SpawnOutcomes, throws \in BOOLEAN : Connect(spawn, throws)
    \/ \E chunk \in ChunkInputs : Data(chunk)
    \/ ProcClose
    \/ ProcError
    \/ \E k \in Timers : RunTimer(k)
    \/ AdvanceTime
    \/ \E throws \in BOOLEAN : CallTool(throws)
    \/ Disconnect

Spec == Init /\ [][Next]_vars

\* the client used through the service: tool calls come in through
\* callMCPFunction; at most MaxFairRequestId requests
ServiceNext ==
    \/ Next /\ requestId' <= MaxFairRequestId + 1
    \/ \E serverName \in ServerNames, throws \in BOOLEAN :
          CallMCPFunction(serverName, throws) /\ requestId' <= MaxFairRequestId + 1

ServiceSpec == Init /\ [][ServiceNext]_vars

\* the framing specification: connect() to a child that writes any bytes
Bytes == {NL, SP, "x", LeadByte, ContByte}
ByteChunks == {<<b>> : b \in Bytes} \cup {<<b, c>> : b \in Bytes, c \in Bytes}

FramerNext ==
    \/ Connect("ok", FALSE)
    \/ \E bytes \in ByteChunks : FramerData(bytes)

FramerSpec == Init /\ [][FramerNext]_vars

\* ---- the line specification: whole lines, some of them not JSON ----------
MaxLineBytes == 8

\* lines the child may write: not JSON, a truncated message, a blank line,
\* responses to the two requests of the handshake
OutputLines ==
    {<<"x", NL>>, <<"R", "1", NL>>, <<SP, NL>>, ResultLine(1, "a"),
     ErrorLine(1, "m", "a"), ResultLine(2, "b")}

\* one or two lines, or a line that comes in two chunks
LineChunks ==
    OutputLines \cup {l \o m : l \in OutputLines, m \in OutputLines}
        \cup {<<"R", "1">>, <<"a", NL>>}

LineData(chunk) ==
    /\ Len(received) + Len(chunk) <= MaxLineBytes
    /\ StdoutData(chunk, TRUE)

LineNext ==
    \/ Connect("ok", FALSE)
    \/ \E chunk \in LineChunks : LineData(chunk)

LineSpec == Init /\ [][LineNext]_vars

\* ---- connectWithRetry, lines 1262-1301 ------------------------------------
MaxRetries == 2

\* a loop that goes on after the last attempt
ConnectWithRetry_Unbounded ==
    /\ connectCalls # <<>> /\ connectCalls[1].how = "reject"
    /\ attempt' = attempt + 1
    /\ orphan' = (orphan \/ (child = "running" /\ signals = {}))
    /\ process' = "null" /\ connected' = FALSE /\ requestId' = 1
    /\ pendingRequests' = {} /\ tools' = "none" /\ buffer' = <<>>
    /\ connectionTimeout' = NoTimer /\ killTimer' = NoTimer
    /\ requestTimers' = [i \in Ids |-> NoTimer]
    /\ connectCalls' = <<>>
    /\ settled' = [i \in Ids |-> <<>>]
    /\ method' = [i \in Ids |-> "none"]
    /\ written' = {} /\ child' = "none" /\ killed' = FALSE /\ signals' = {}
    /\ now' = 0 /\ lastSettled' = {} /\ lastCall' = "none"
    /\ closedEarly' = FALSE /\ lateResponse' = FALSE
    /\ lastDisconnect' = "none" /\ stray' = FALSE /\ lastUsage' = "none"
    /\ UNCHANGED <<framerVars, httpVars>>

\* the catch block of an attempt that is not the last, the 5 s wait and the
\* head of the next iteration: Promise.race has rejected (the first call of
\* connect()'s resolve / reject was a reject), nothing is done with the
\* failed client or its child, and `new MCPClient(serverConfig)` gives the
\* fields their constructor values; the next step of the new client is
\* Connect. The failed client is not followed any further: what is kept of
\* it is whether its child was left running without a signal. The wait is
\* any length of time (events of the failed client may come before it
\* ends), and the clock starts again at the new connect().
ConnectWithRetry ==
    /\ connectCalls # <<>> /\ connectCalls[1].how = "reject"
    /\ attempt < MaxRetries
    /\ attempt' = attempt + 1
    /\ orphan' = (orphan \/ (child = "running" /\ signals = {}))
    /\ process' = "null" /\ connected' = FALSE /\ requestId' = 1
    /\ pendingRequests' = {} /\ tools' = "none" /\ buffer' = <<>>
    /\ connectionTimeout' = NoTimer /\ killTimer' = NoTimer
    /\ requestTimers' = [i \in Ids |-> NoTimer]
    /\ connectCalls' = <<>>
    /\ settled' = [i \in Ids |-> <<>>]
    /\ method' = [i \in Ids |-> "none"]
    /\ written' = {} /\ child' = "none" /\ killed' = FALSE /\ signals' = {}
    /\ now' = 0 /\ lastSettled' = {} /\ lastCall' = "none"
    /\ closedEarly' = FALSE /\ lateResponse' = FALSE
    /\ lastDisconnect' = "none" /\ stray' = FALSE /\ lastUsage' = "none"
    /\ UNCHANGED <<framerVars, httpVars>>

\* the client as connectWithRetry drives it, at most MaxFairRequestId
\* requests per attempt
RetryNext ==
    \/ Next /\ requestId' <= MaxFairRequestId + 1
    \/ ConnectWithRetry

RetrySpec == Init /\ [][RetryNext]_vars

\* how connectWithRetry stands: trying, waiting for the next attempt,
\* returned with the client registered, or returned after the last attempt
\* failed (the catch block never rethrows, so discoverAndConnectMCPServers
\* goes on with the next server)
ConnectWithRetryState ==
    IF connectCalls = <<>> THEN "connecting"
    ELSE IF connectCalls[1].how = "resolve" THEN "registered"
    ELSE IF attempt < MaxRetries THEN "waiting"
    ELSE "gave up"

\* ---- POST /mcp/strava and /mcp/calendar, addMCPProtocolEndpoints ---------
Endpoints == {"/mcp/strava", "/mcp/calendar"}
StravaHeaders == {"x-strava-token"}
GoogleHeaders ==
    {"x-google-client-id", "x-google-client-secret", "x-google-refresh-token"}

\* req.body: NoBody when the request has no JSON body; params is
\* "undefined", or names a tool the endpoint has or one it has not
Bodies ==
    {NoBody} \cup
    [jsonrpc : {"2.0", "1.0"}, id : {1, 2},
     method : {"initialize", "tools/list", "tools/call", "resources/list"},
     params : {"undefined", "tool", "unknown tool"}]

\* the headers that carry a non-empty value
Requests ==
    [endpoint : Endpoints, body : Bodies,
     headers : SUBSET (StravaHeaders \cup GoogleHeaders)]

\* lines 22-23 and 139-144: the credentials the endpoint wants are there
HasCredentials(r) ==
    IF r.endpoint = "/mcp/strava" THEN StravaHeaders \subseteq r.headers
    ELSE GoogleHeaders \subseteq r.headers

BodyId(r) == r.body.id

ErrorResponse(status, id, code) ==
    [status |-> status, id |-> id, kind |-> "error", code |-> code]
ResultResponse(id) == [status |-> 200, id |-> id, kind |-> "result", code |-> 0]

\* a handler without the test of the credential headers
McpHandler_NoGate(r) ==
    IF r.body = NoBody
    THEN [res |-> <<ErrorResponse(500, NoId, -32603)>>, upstream |-> "none"]
    ELSE IF r.body.jsonrpc # "2.0"
    THEN [res |-> <<ErrorResponse(400, r.body.id, -32602)>>, upstream |-> "none"]
    ELSE IF r.body.method \in {"initialize", "tools/list"}
    THEN [res |-> <<ResultResponse(r.body.id)>>, upstream |-> "none"]
    ELSE IF r.body.method = "tools/call"
    THEN IF r.body.params = "tool"
         THEN [res |-> <<>>, upstream |-> "pending"]
         ELSE [res |-> <<ErrorResponse(500, r.body.id, -32603)>>, upstream |-> "none"]
    ELSE [res |-> <<ErrorResponse(400, r.body.id, -32601)>>, upstream |-> "none"]

\* the handler up to its response or to the await of the upstream call,
\* lines 8-123 and 126-251: destructuring an undefined body, destructuring
\* undefined params and a tool name the endpoint has not all throw and end
\* in the catch block, before any upstream call
McpHandler(r) ==
    IF r.body = NoBody
    THEN [res |-> <<ErrorResponse(500, NoId, -32603)>>, upstream |-> "none"]
    ELSE IF r.body.jsonrpc # "2.0"
    THEN [res |-> <<ErrorResponse(400, r.body.id, -32602)>>, upstream |-> "none"]
    ELSE IF ~HasCredentials(r) /\ r.body.method \notin {"initialize", "tools/list"}
    THEN [res |-> <<ErrorResponse(401, r.body.id, -32001)>>, upstream |-> "none"]
    ELSE IF r.body.method \in {"initialize", "tools/list"}
    THEN [res |-> <<ResultResponse(r.body.id)>>, upstream |-> "none"]
    ELSE IF r.body.method = "tools/call"
    THEN IF r.body.params = "tool"
         THEN [res |-> <<>>, upstream |-> "pending"]
         ELSE [res |-> <<ErrorResponse(500, r.body.id, -32603)>>, upstream |-> "none"]
    ELSE [res |-> <<ErrorResponse(400, r.body.id, -32601)>>, upstream |-> "none"]

\* a request comes in (the one before it has been answered)
Post(r) ==
    /\ upstream # "pending"
    /\ req' = r
    /\ res' = McpHandler(r).res
    /\ upstream' = McpHandler(r).upstream
    /\ UNCHANGED <<process, connected, requestId, pendingRequests, tools, buffer,
                   connectionTimeout, requestTimers, killTimer, connectCalls,
                   settled, method, written, child, killed, signals, now,
                   lastSettled, lastCall, closedEarly, lateResponse,
                   lastDisconnect, stray, lastUsage>>
    /\ UNCHANGED <<framerVars, retryVars>>

\* the upstream API call returns or fails: res.json(result), lines 108-112,
\* or the catch block, lines 114-121
UpstreamSettles(ok) ==
    /\ upstream = "pending"
    /\ upstream' = IF ok THEN "returned" ELSE "failed"
    /\ res' = Append(res, IF ok THEN ResultResponse(BodyId(req))
                          ELSE ErrorResponse(500, BodyId(req), -32603))
    /\ UNCHANGED req
    /\ UNCHANGED <<process, connected, requestId, pendingRequests, tools, buffer,
                   connectionTimeout, requestTimers, killTimer, connectCalls,
                   settled, method, written, child, killed, signals, now,
                   lastSettled, lastCall, closedEarly, lateResponse,
                   lastDisconnect, stray, lastUsage>>
    /\ UNCHANGED <<framerVars, retryVars>>

HttpNext ==
    \/ \E r \in Requests : Post(r)
    \/ \E ok \in BOOLEAN : UpstreamSettles(ok)

HttpSpec == Init /\ [][HttpNext]_vars

\* ---- shorthands for the claims -------------------------------------------
Sent(i) == method[i] # "none"
ResolvedBy(i) == settled[i] # <<>> /\ settled[i][1].how = "resolve"
RejectedBy(i) == settled[i] # <<>> /\ settled[i][1].how = "reject"
TimedOut(i) == settled[i] # <<>> /\ settled[i][1] = Reject("Request timeout")
ConnectSettled == connectCalls # <<>>
ConnectResolved == ConnectSettled /\ connectCalls[1].how = "resolve"
ConnectRejected == ConnectSettled /\ connectCalls[1].how = "reject"

\* The 60 s connection timer is armed together with the 15 s timer of the
\* initialize request, and every way that request settles clears it: it is
\* never due, so cleanup() never runs.
ConnectionTimerNeverDue ==
    /\ connectionTimeout # NoTimer => now < connectionTimeout
    /\ killTimer = NoTimer

\* C1: the resolve / reject pair of every request is called at most once,
\* by the matching response or by the request's timeout, whichever comes
\* first; a response that arrives after the timeout, and a timeout that
\* fires after the response, call nothing and leave no entry behind.
C1_SingleResolution ==
    \A i \in Ids :
        /\ Len(settled[i]) <= 1
        /\ settled[i] # <<>> => i \notin pendingRequests
        /\ lateResponse => lastSettled \cap {j \in Ids : TimedOut(j)} = {}

\* C1 witness: a response arrived for a request that had timed out, and the
\* timer of another request fired after its response had been handled
C1_Witness ==
    /\ lateResponse
    /\ \E i \in Ids : TimedOut(i) /\ i \in written
    /\ \E j \in Ids : ResolvedBy(j) /\ requestTimers[j] = NoTimer

\* C2: a promise that is resolved is resolved with the result of the
\* response carrying its own id (the child answers id i with PayloadFor(i)),
\* also when two responses arrive in one chunk, in either order.
C2_Correlation ==
    \A i \in Ids : ResolvedBy(i) => settled[i][1].val = PayloadFor(i)

\* C2 witness: one chunk resolved two pending requests, each with its own
\* result
C2_Witness ==
    \E i \in Ids, j \in Ids :
        /\ i < j /\ lastSettled = {i, j}
        /\ settled[i] = <<Resolve(PayloadFor(i))>>
        /\ settled[j] = <<Resolve(PayloadFor(j))>>
        /\ PayloadFor(i) # PayloadFor(j)

\* the ids of the two handshake requests, 0 while not sent
InitializeId == IdOf(Client, "initialize")
ToolsListId == IdOf(Client, "tools/list")

C4_ExitMarksDisconnected ==
    [][((child # "exited" /\ child' = "exited") \/ (child = "spawnfail" /\ child' = "spawnerr"))
         => connected' = FALSE]_vars

\* C4 witness: the child of a Ready connection exited and the close handler
\* cleared connected
C4_Witness ==
    /\ child = "exited" /\ process = "child"
    /\ ConnectResolved /\ ~closedEarly
    /\ ~connected

\* C5: once the child has exited, disconnect() was called or connect()
\* failed, connected is never true again.
C5_TerminalStaysDown ==
    (child = "exited" \/ (process = "null" /\ child # "none") \/ ConnectRejected)
        => ~connected

\* C6: callTool on a connection that is not Ready rejects with the
\* not-connected error, allocates no id, adds no pending entry, arms no timer
\* and writes nothing to the child.
C6_CallToolNotReady ==
    [][(lastCall' # "none" /\ ~connected)
         => /\ lastCall' = "not connected"
            /\ UNCHANGED <<requestId, pendingRequests, written, requestTimers,
                           method, settled>>]_vars

\* C6 witness: callTool was rejected while the handshake was in progress
C6_Witness ==
    /\ lastCall = "not connected"
    /\ ~ConnectSettled /\ child = "running"
    /\ InitializeId # 0 /\ pendingRequests # {}

\* C7: every connect() that failed with a timeout error has had a
\* termination signal sent to its child process.
C7_TimeoutTerminatesChild ==
    (ConnectRejected /\ connectCalls[1].val \in {"Request timeout", "Connection timeout"})
        => signals # {}

\* C8: if the child exits before the handshake has completed, connect()
\* does not resolve.
C8_EarlyExitNeverResolves ==
    closedEarly => ~ConnectResolved

\* C9: ids start at 1 and grow by one with every request; the ids in use are
\* exactly 1 .. requestId - 1, an id given to a request is never given to
\* another, and a pending or settled id is always one that was assigned.
C9_IdsFreshAndIncreasing ==
    [][/\ \A i \in Ids : Sent(i) <=> i < requestId
       /\ \A i \in Ids : (i \in pendingRequests \/ settled[i] # <<>>) => Sent(i)
       /\ requestId' \in {requestId, requestId + 1}
       /\ \A i \in Ids : Sent(i) => method'[i] = method[i]
       /\ requestId' = requestId + 1 =>
             /\ ~Sent(requestId) /\ requestId \notin pendingRequests
             /\ method'[requestId] # "none"
             /\ pendingRequests' \ pendingRequests \subseteq {requestId}
       /\ requestId' = requestId => pendingRequests' \subseteq pendingRequests]_vars

\* C9 witness: every id was assigned and two requests are pending at once
C9_Witness ==
    /\ requestId = MaxRequestId + 1
    /\ Cardinality(pendingRequests) >= 2

\* an event that changes no variable of the client or the child: a callTool
\* that throws at once, a disconnect() without a process handle, a chunk of
\* stray messages that leaves the buffer as it is
NoEffect ==
    \/ lastCall' = "not connected"
    \/ lastDisconnect' = "no-op"
    \/ stray' /\ buffer' = buffer

\* the behaviours with at most MaxFairRequestId requests, without the
\* events that have no effect
FairNext == Next /\ requestId' <= MaxFairRequestId + 1 /\ ~NoEffect

\* the event loop delivers the spawn error and runs its timers, and time
\* passes
FairSpec ==
    /\ Init /\ [][FairNext]_vars
    /\ WF_vars(ProcError)
    /\ WF_vars(\E k \in Timers : RunTimer(k))
    /\ WF_vars(AdvanceTime)

\* C10: every entry of the outstanding table is eventually removed, also
\* when the child has exited or disconnect() was called meanwhile.
C10_PendingEventuallyRemoved ==
    \A i \in Ids : (i \in pendingRequests) ~> (i \notin pendingRequests)

\* C10 witness: a request still pending after the child had exited and
\* disconnect() had been called was removed by its own timeout
C10_Witness ==
    \E i \in Ids :
        /\ lastSettled = {i} /\ TimedOut(i) /\ i \in written
        /\ child = "exited" /\ process = "null"

\* C11: the handler of the child's exit leaves the outstanding table alone
\* and calls no resolve / reject; once the child has exited an entry leaves
\* the table only by the rejection of its own timeout, and every request
\* pending at the exit is eventually rejected that way.
C11_ExitDoesNotFlush ==
    /\ [][(child # "exited" /\ child' = "exited")
            => UNCHANGED <<pendingRequests, settled, requestTimers, connectCalls>>]_vars
    /\ [][child = "exited"
            => \A i \in pendingRequests \ pendingRequests' :
                   /\ settled'[i] = <<Reject("Request timeout")>>
                   /\ settled[i] = <<>>
                   /\ now >= requestTimers[i] /\ requestTimers[i] # NoTimer]_vars
    /\ \A i \in Ids : (child = "exited" /\ i \in pendingRequests) ~> TimedOut(i)

\* C11 witness: a tool call that was pending when the child of a Ready
\* connection exited has just been rejected by its timeout (connected has
\* been false since the exit, so the call was made before it)
C11_Witness ==
    \E i \in Ids :
        /\ child = "exited" /\ process = "child" /\ ~connected
        /\ ConnectResolved /\ ~closedEarly
        /\ method[i] = "tools/call"
        /\ lastSettled = {i} /\ TimedOut(i)

\* C12: after disconnect() a child that is still running has the forceful
\* kill of the grace period scheduled or delivered, so that it is eventually
\* not running.
C12_DisconnectEscalates ==
    (process = "null" /\ "SIGTERM" \in signals /\ child = "running")
        => (killTimer # NoTimer \/ "SIGKILL" \in signals)

\* C13: disconnect() on a client that has no process handle (already
\* disconnected, or never connected) sends no signal and changes no field
\* of the client, no timer and nothing of the child; and every disconnect()
\* leaves the client without a handle, so a second disconnect() changes
\* nothing.
C13_DisconnectIdempotent ==
    [][/\ lastDisconnect' # "none" => process' = "null"
       /\ lastDisconnect' = "no-op" =>
             /\ process = "null"
             /\ UNCHANGED <<process, connected, requestId, pendingRequests, tools,
                            buffer, connectionTimeout, requestTimers, killTimer,
                            connectCalls, settled, method, written, child, killed,
                            signals, now>>]_vars

\* C13 witness: disconnect() was called again after a disconnect() that
\* signalled a child which is still running
C13_Witness ==
    /\ lastDisconnect = "no-op"
    /\ child = "running" /\ signals = {"SIGTERM"}
    /\ process = "null"

\* the request was rejected by an error response of the child
RejectedByResponse(i) ==
    RejectedBy(i) /\ settled[i][1].val \in Payloads \cup {"MCP error"}

\* the code property of the value a promise was rejected with
CodeCarried(call) == IF "code" \in DOMAIN call THEN call.code ELSE "none"

\* C14: a request that an error response rejected (its entry removed) was
\* rejected with an error that carries the message and the code the child
\* supplied for it.
C14_ErrorCarriesMessageAndCode ==
    \A i \in Ids :
        RejectedByResponse(i) =>
            /\ i \notin pendingRequests
            /\ settled[i][1].val = "a"
            /\ CodeCarried(settled[i][1]) = CodeFor(i)

\* C15: handling messages none of which has the id of a pending request
\* (notifications without an id, responses to ids never sent or already
\* settled, responses that come after the timeout) changes neither the
\* outstanding table, the id counter, connected, the tool set nor any timer,
\* and calls no resolve / reject.
C15_StrayIgnored ==
    [][stray' => UNCHANGED <<pendingRequests, requestId, connected, tools, settled,
                             connectCalls, requestTimers, connectionTimeout, method,
                             written, process>>]_vars

\* C15 witness: such a chunk, not a late response, arrived on a Ready
\* connection while a request was pending
C15_Witness ==
    /\ stray /\ ~lateResponse
    /\ connected /\ pendingRequests # {}
    /\ tools # "none"

C17_UsageErrorsTouchNothing ==
    [][/\ lastUsage' \in {"not found", "not connected"} =>
             UNCHANGED <<requestId, pendingRequests, written, requestTimers, method,
                         settled, process, connected, tools, signals, connectCalls>>
       /\ lastUsage' = "not connected" => (McpClients # {} /\ ~connected)
       /\ lastUsage' = "called" => (McpClients # {} /\ connected)]_vars

\* C17 witness: callMCPFunction threw not-connected for the registered
\* server after its child had exited with a tool call pending
C17_Witness ==
    /\ lastUsage = "not connected"
    /\ child = "exited" /\ process = "child"
    /\ \E i \in pendingRequests : method[i] = "tools/call"

\* the unregistered name: callMCPFunction threw not-found while the
\* handshake was in flight
C17_NotFoundReached ==
    lastUsage = "not found" /\ ~ConnectSettled /\ pendingRequests # {}

\* a transport error has happened before the last event: the child could
\* not be spawned, the child has exited, or a write to its stdin failed
TransportErrorBefore ==
    \/ child \in {"spawnerr", "exited"}
    \/ \E i \in Ids : settled[i] = <<Reject("write failed")>> /\ i \notin lastSettled

\* C18: a callTool made after a transport error fails with the
\* not-connected error (thrown by callTool, or by sendRequest when the
\* process handle is gone); it is never sent.
C18_TransportErrorMeansNotConnected ==
    (TransportErrorBefore /\ lastCall # "none")
        => lastCall \in {"not connected", "refused"}

\* C19: a tools/list or tools/call request does not stay pending beyond the
\* 15 s after it was sent, and the initialize request (sent at time 0) to a
\* child that is running is not rejected by a request timeout before 60 s
\* have passed.
C19_InitializeGets60s ==
    /\ \A i \in pendingRequests :
          method[i] # "initialize" =>
              (requestTimers[i] # NoTimer /\ now <= requestTimers[i])
    /\ (child = "running" /\ InitializeId # 0 /\ TimedOut(InitializeId))
          => now >= ConnectionTimeoutMs

\* the complete lines of everything the child has written: the text of the
\* whole byte stream up to its last newline, cut at the newlines
SourceLines == CompleteLines(Split(BufferToString(received)))

\* C20: whatever the chunks, the lines given to JSON.parse are exactly the
\* complete lines of the stream: as many as there are newlines, in order,
\* each the text between two newlines, none twice, no character lost.
C20_LineFraming ==
    parsed = SourceLines

\* The same without the lines that are empty or white space only, which
\* the handler skips (line 448).  This does not hold either: a character
\* whose bytes arrive in two chunks is decoded as two U+FFFD.
FramingOfNonBlankLines ==
    parsed = ParserInput(SourceLines)

\* the pieces the handler gets when everything the child has written
\* arrives as one chunk
OneChunk == Split(BufferToString(received))

\* C21: however the bytes written by the child were cut into chunks, the
\* lines given to JSON.parse (hence the messages handled) and the buffer
\* that is left are those of the same bytes arriving as one chunk.
C21_Reassembly ==
    /\ parsed = ParserInput(CompleteLines(OneChunk))
    /\ buffer = KeptBuffer(OneChunk)

\* the part of s after its last newline (all of s when it has none)
AfterLastNewline(s) ==
    LET newlines == {k \in 1..Len(s) : s[k] = NL}
        last == IF newlines = {} THEN 0
                ELSE CHOOSE k \in newlines : \A j \in newlines : j <= k
    IN SubSeq(s, last + 1, Len(s))

\* C22: after every chunk the buffer holds no newline, and it is exactly the
\* text received after the last newline received so far.
C22_BufferIsPartialLine ==
    /\ \A k \in 1..Len(buffer) : buffer[k] # NL
    /\ buffer = AfterLastNewline(text)

\* a partial line that came in more than one chunk, after a complete line
C22_Witness ==
    /\ Len(text) > 2
    /\ Len(buffer) = 2
    /\ text[Len(text) - 2] = NL

\* the bytes the step has received, its complete lines and what JSON.parse
\* made of them
StepChunk == SubSeq(received', Len(received) + 1, Len(received'))
StepText == buffer \o BufferToString(StepChunk)
StepMessages == ParseLines(CompleteLines(Split(StepText)))
Malformed(line) == Trim(line) # <<>> /\ ~JSONParse(line).ok

\* C23: a complete line that is not JSON changes nothing: a chunk of such
\* lines leaves every field of the client as it was, the buffer is still the
\* text after the last newline, the child and the connection stay up, and
\* every response to a pending request in the same chunk or in a later one
\* still settles its request.
C23_MalformedLineDropped ==
    [][LET messages == StepMessages IN
       /\ \/ StepChunk = <<>>
          \/ \E k \in 1..Len(messages) : messages[k].ok
                 /\ messages[k].id \in pendingRequests
          \/ UNCHANGED <<process, connected, requestId, pendingRequests, tools,
                         connectionTimeout, requestTimers, killTimer,
                         connectCalls, settled, method, written, child, killed,
                         signals>>
       /\ StepChunk # <<>> =>
             /\ buffer' = AfterLastNewline(StepText)
             /\ process' = process /\ child' = child /\ signals' = signals
             /\ connected => connected'
       /\ \A k \in 1..Len(messages) :
             messages[k].ok /\ messages[k].id \in pendingRequests =>
                /\ Len(settled'[messages[k].id]) = 1
                /\ messages[k].id \notin pendingRequests'
      ]_vars

\* two lines that are not JSON came before the response that resolved
\* initialize
C23_Witness ==
    /\ Len(parsed) >= 3
    /\ Malformed(parsed[1]) /\ Malformed(parsed[2])
    /\ parsed[3] = <<"R", "1", "a">>
    /\ received = <<"x", NL, "x", NL>> \o ResultLine(1, "a")
    /\ ResolvedBy(1)
    /\ Sent(2)

\* C24: the first request written is initialize, with id 1; tools/list is
\* sent (with id 2) only when initialize has been resolved by a response,
\* never after its error or timeout; the tool set is the payload of the
\* result that resolved tools/list, and is empty until then.
C24_HandshakeOrder ==
    /\ \A i \in Ids : method[i] = "initialize" <=> (i = 1 /\ Sent(1))
    /\ written # {} => 1 \in written
    /\ ToolsListId # 0 =>
          /\ ToolsListId = 2
          /\ ResolvedBy(InitializeId)
          /\ settled[InitializeId][1].val \in Payloads
    /\ (InitializeId # 0 /\ RejectedBy(InitializeId)) =>
          (ToolsListId = 0 /\ written \subseteq {1})
    /\ IF ToolsListId # 0 /\ ResolvedBy(ToolsListId)
       THEN tools = settled[ToolsListId][1].val
       ELSE tools = "none"

\* C24 witness: the handshake ran to its end and the tool set is the one the
\* child returned for tools/list
C24_Witness ==
    /\ {1, 2} \subseteq written
    /\ ResolvedBy(1) /\ ResolvedBy(2)
    /\ tools = PayloadFor(2)
    /\ connected

\* C25: while connected is true the client holds a process handle and the
\* child has not exited.
C25_ConnectedHasLiveChild ==
    connected => (process # "null" /\ child = "running")

\* C26: when an attempt of connectWithRetry has failed, its child has been
\* sent a termination signal (or is not running) before the next attempt
\* begins.
C26_NoOrphanChild == ~orphan

\* C27: connectWithRetry makes at most MaxRetries attempts; a further attempt
\* begins only after the attempt before it has failed, never once a
\* connect() has resolved; the client is registered exactly when the
\* attempt's connect() resolved, so no entry exists when every attempt has
\* failed, and then connectWithRetry has returned without throwing.
C27_BoundedRetries ==
    /\ [](attempt \in 1..MaxRetries)
    /\ [][attempt' # attempt =>
             /\ attempt' = attempt + 1
             /\ ConnectRejected /\ McpClients = {}
             /\ ConnectWithRetryState = "waiting"
             /\ ConnectWithRetryState' = "connecting"]_vars
    /\ [][(ConnectWithRetryState \in {"registered", "gave up"}) =>
             /\ attempt' = attempt
             /\ ConnectWithRetryState' \in {"registered", "gave up"}]_vars
    /\ [](McpClients # {} <=> ConnectWithRetryState = "registered")
    /\ []((attempt = MaxRetries /\ ConnectRejected) =>
             (McpClients = {} /\ ConnectWithRetryState = "gave up"))

\* C27 witness: the first attempt failed and the second one resolved and
\* was registered
C27_Witness ==
    /\ attempt = 2
    /\ ConnectResolved /\ connected
    /\ McpClients = {ServerName}

\* the other end: every attempt has failed and nothing is registered
C27_GaveUpReached ==
    /\ attempt = MaxRetries /\ ConnectRejected
    /\ McpClients = {}

\* the write of request i threw
WriteFailed(i) == settled[i] # <<>> /\ settled[i][1] = Reject("write failed")

\* C28: a sendRequest made without a process handle is rejected with the
\* not-connected error and leaves the id counter, the table, the timers and
\* the child's input as they were; a request whose write threw is not in the
\* table, was not written, and its promise has been rejected exactly once,
\* also after its timer has run.
C28_SendRequestFailures ==
    /\ [][lastCall' = "refused" =>
             /\ process = "null"
             /\ UNCHANGED <<requestId, pendingRequests, requestTimers, method,
                            settled, written, connectCalls>>]_vars
    /\ [](\A i \in Ids :
             WriteFailed(i) =>
                /\ settled[i] = <<Reject("write failed")>>
                /\ i \notin pendingRequests /\ i \notin written
                /\ i < requestId)

\* C28 witness: the write of a tool call threw, and the timer of that
\* request has run since
C28_Witness ==
    \E i \in Ids :
        /\ method[i] = "tools/call" /\ WriteFailed(i)
        /\ requestTimers[i] = NoTimer
        /\ now >= RequestTimeoutMs

\* the other case: a call was refused for want of a process handle
C28_RefusedReached == lastCall = "refused" /\ connected /\ process = "null"

\* C29: the connection timer is armed only while connect() is unsettled,
\* the child has not exited or failed, and the initialize request is pending
\* with its own, earlier timer; so the timer is cancelled by whatever
\* settles connect() or ends the child before it can fire: it never rejects
\* connect(), cleanup() never runs, and the child of a Ready connection gets
\* no signal from it.
C29_ConnectionTimerCancelled ==
    /\ connectionTimeout # NoTimer =>
          /\ ~ConnectSettled /\ ~connected
          /\ child \in {"running", "spawnfail"}
          /\ InitializeId = 1 /\ 1 \in pendingRequests
          /\ requestTimers[1] # NoTimer
          /\ requestTimers[1] < connectionTimeout
    /\ ~Due(ConnectionTimer)
    /\ killTimer = NoTimer /\ "SIGKILL" \notin signals
    /\ \A k \in 1..Len(connectCalls) : connectCalls[k] # Reject("Connection timeout")
    /\ (connected /\ process # "null") => signals = {}

\* C29 witness: a Ready connection whose child runs unsignalled, at the end
\* of the clock, with the connection timer cancelled
C29_Witness ==
    /\ connected /\ ConnectResolved
    /\ child = "running" /\ signals = {} /\ process = "child"
    /\ connectionTimeout = NoTimer
    /\ now = Horizon

\* C30: a request to /mcp/strava or /mcp/calendar gets exactly one JSON-RPC
\* response (none yet while the upstream call is pending), with the id of
\* the request; a jsonrpc other than '2.0' gets error -32602; initialize and
\* tools/list get a result with or without credentials; every other method
\* without the credential headers gets error -32001 and no upstream call is
\* made; an unknown method with credentials gets error -32601.
C30_CredentialGate ==
    req # NoRequest =>
        /\ IF upstream = "pending" THEN res = <<>> ELSE Len(res) = 1
        /\ \A k \in 1..Len(res) : res[k].id = BodyId(req)
        /\ req.body # NoBody =>
              LET b == req.body
                  open == b.method \in {"initialize", "tools/list"}
              IN /\ b.jsonrpc # "2.0" =>
                       (res = <<ErrorResponse(400, b.id, -32602)>> /\ upstream = "none")
                 /\ (b.jsonrpc = "2.0" /\ open) =>
                       (res = <<ResultResponse(b.id)>> /\ upstream = "none")
                 /\ (b.jsonrpc = "2.0" /\ ~open /\ ~HasCredentials(req)) =>
                       (res = <<ErrorResponse(401, b.id, -32001)>> /\ upstream = "none")
                 /\ (b.jsonrpc = "2.0" /\ HasCredentials(req)
                       /\ b.method \notin {"initialize", "tools/list", "tools/call"}) =>
                       (res = <<ErrorResponse(400, b.id, -32601)>> /\ upstream = "none")

\* C30 witness: a tools/call to /mcp/calendar with two of the three Google
\* headers was answered with -32001, no upstream call made
C30_Witness ==
    /\ req.endpoint = "/mcp/calendar"
    /\ req.body # NoBody /\ req.body.method = "tools/call"
    /\ req.body.params = "tool" /\ req.body.id = 2
    /\ req.headers = {"x-google-client-id", "x-google-refresh-token", "x-strava-token"}
    /\ res = <<ErrorResponse(401, 2, -32001)>>
    /\ upstream = "none"

\* the other side of the gate: with the credentials the call goes upstream
\* and its result is the one response
C30_UpstreamReached ==
    /\ req.endpoint = "/mcp/strava" /\ HasCredentials(req)
    /\ upstream = "returned"
    /\ res = <<ResultResponse(BodyId(req))>>
====
